---- MODULE Spec2Model ----
(***************************************************************************)
(* A model of public_ip_poster.py: the IPv4 validator, the resolver that   *)
(* asks every public-IP service, the cache file with its time-to-live, the *)
(* dispatch of the cache file to the configured destinations, and main()   *)
(* that runs them in sequence.                                             *)
(*                                                                         *)
(* A Python str whose characters the program inspects (an address) is a    *)
(* sequence of one-character strings; the character U+00B2 (superscript    *)
(* two) is written "sup2" and a line feed "nl".  A str the program only    *)
(* compares or passes on (a field name, a URL, a path) is a TLA+ string.   *)
(***************************************************************************)
EXTENDS Integers, Sequences, FiniteSets, TLC

VARIABLES
    ip_address,   \* validate_ip: the argument of the call
    valid,        \* validate_ip: "pending", or the outcome of the call
    file,         \* the cache file: whether it exists, its content, its mtime
    now,          \* time.time(), in whole seconds
    last,         \* cache store: the last call, its arguments and its outcome
    pc,           \* main: the statement it is at, "exited" once the process ended
    config,       \* main: the configuration file named by --config
    args,         \* main: the parsed arguments (cache_ttl, ignore_cache)
    cache_dir_exists, \* whether the directory named by --cache-dir exists
    public_ip_list,   \* main: its variable public_ip_list
    hist,         \* main: what the run has done so far (see NoHistory)
    exit          \* main: how the process ended (see Running)

validateVars == <<ip_address, valid>>

mainVars == <<pc, config, args, cache_dir_exists, public_ip_list, hist, exit>>

vars == <<ip_address, valid, file, now, last, pc, config, args, cache_dir_exists,
          public_ip_list, hist, exit>>

(***************************************************************************)
(* Characters and str methods                                              *)
(***************************************************************************)

\* The characters str.isdigit() accepts: the ASCII digits and, among others,
\* the superscript digits, which int() does not parse.
AsciiDigits == {"0", "1", "2", "5", "6"}

IsDigitChars == AsciiDigits \cup {"sup2"}

\* The characters str.strip() removes.
Whitespace == {" ", "nl"}

DigitValue(c) ==
    CASE c = "0" -> 0
      [] c = "1" -> 1
      [] c = "2" -> 2
      [] c = "5" -> 5
      [] c = "6" -> 6
      [] OTHER -> 0

\* str.split(sep): the pieces between the separators, empty pieces included.
RECURSIVE SplitFrom(_, _, _, _)
SplitFrom(s, sep, i, cur) ==
    IF i > Len(s) THEN <<cur>>
    ELSE IF s[i] = sep THEN <<cur>> \o SplitFrom(s, sep, i + 1, <<>>)
    ELSE SplitFrom(s, sep, i + 1, Append(cur, s[i]))

split(s, sep) == SplitFrom(s, sep, 1, <<>>)

\* str.isdigit(): non-empty and every character a digit character.
isdigit(part) ==
    /\ Len(part) > 0
    /\ \A i \in 1..Len(part) : part[i] \in IsDigitChars

\* int(part) of a str that passed isdigit(): the base-10 value, or ValueError
\* when a character is a digit to isdigit() but not to int().
IntRaises(part) == \E i \in 1..Len(part) : part[i] \notin AsciiDigits

RECURSIVE IntValue(_)
IntValue(part) ==
    IF Len(part) = 0 THEN 0
    ELSE 10 * IntValue(SubSeq(part, 1, Len(part) - 1)) + DigitValue(part[Len(part)])

\* str.strip(): leading and trailing whitespace removed.
RECURSIVE lstrip(_)
lstrip(s) ==
    IF Len(s) > 0 /\ Head(s) \in Whitespace THEN lstrip(Tail(s)) ELSE s

RECURSIVE rstrip(_)
rstrip(s) ==
    IF Len(s) > 0 /\ s[Len(s)] \in Whitespace
    THEN rstrip(SubSeq(s, 1, Len(s) - 1)) ELSE s

strip(s) == rstrip(lstrip(s))

(***************************************************************************)
(* validate_ip                                                             *)
(***************************************************************************)

\* The segment check with 255 excluded.
PartCheckOffByOne(part) ==
    IF ~isdigit(part) THEN "False"
    ELSE IF IntRaises(part) THEN "ValueError"
    ELSE IF 0 <= IntValue(part) /\ IntValue(part) < 255 THEN "True"
    ELSE "False"

\* One segment of the generator expression: part.isdigit() and
\* 0 <= int(part) <= 255.  "ValueError" when int(part) raises.
PartCheck(part) ==
    IF ~isdigit(part) THEN "False"
    ELSE IF IntRaises(part) THEN "ValueError"
    ELSE IF 0 <= IntValue(part) /\ IntValue(part) <= 255 THEN "True"
    ELSE "False"

\* all(...) over the parts: left to right, stopping at the first part that is
\* not accepted; an exception of a part reached propagates.
RECURSIVE AllParts(_, _)
AllParts(parts, i) ==
    IF i > Len(parts) THEN "True"
    ELSE IF PartCheck(parts[i]) = "True" THEN AllParts(parts, i + 1)
    ELSE PartCheck(parts[i])

\* validate_ip(ip_address): "True", "False", or "ValueError" when it raises.
validate_ip(ip) ==
    LET parts == split(ip, ".")
    IN  IF Len(parts) # 4 THEN "False" ELSE AllParts(parts, 1)

(***************************************************************************)
(* Python values and JSON text                                             *)
(*                                                                         *)
(* A Python value is a record [k, n, s, cs, items]: k is "num", "null"     *)
(* (None), "str" or "obj" (a dict); a dict's items are [key, val] records  *)
(* in insertion order.  JSON text is a sequence of tokens [k, n, s, cs].   *)
(***************************************************************************)

PyNone == [k |-> "null", n |-> 0, s |-> "", cs |-> <<>>, items |-> <<>>]

PyNum(i) == [k |-> "num", n |-> i, s |-> "", cs |-> <<>>, items |-> <<>>]

\* An address: a str spelled out in characters.
PyStr(chars) == [k |-> "str", n |-> 0, s |-> "", cs |-> chars, items |-> <<>>]

PyDict(its) == [k |-> "obj", n |-> 0, s |-> "", cs |-> <<>>, items |-> its]

\* bool(v)
Truthy(v) ==
    CASE v.k = "num" -> v.n # 0
      [] v.k = "str" -> v.s # "" \/ v.cs # <<>>
      [] v.k = "obj" -> Len(v.items) > 0
      [] OTHER -> FALSE

\* key in d
HasKey(d, key) == \E i \in 1..Len(d.items) : d.items[i].key = key

\* d[key], for a key of d
Get(d, key) ==
    d.items[CHOOSE i \in 1..Len(d.items) : d.items[i].key = key].val

\* d[key] = val on the items of d: a present key keeps its place.
Put(its, key, val) ==
    IF \E i \in 1..Len(its) : its[i].key = key
    THEN [i \in 1..Len(its) |->
            IF its[i].key = key THEN [key |-> key, val |-> val] ELSE its[i]]
    ELSE Append(its, [key |-> key, val |-> val])

TPunct(c) == [k |-> "p", n |-> 0, s |-> c, cs |-> <<>>]

TStr(name, chars) == [k |-> "str", n |-> 0, s |-> name, cs |-> chars]

TNum(i) == [k |-> "num", n |-> i, s |-> "", cs |-> <<>>]

TNull == [k |-> "null", n |-> 0, s |-> "", cs |-> <<>>]

IsPunct(tok, c) == tok.k = "p" /\ tok.s = c

\* json.dump(v): the text of v, a dict's members in insertion order.
RECURSIVE json_dump(_)
RECURSIVE DumpMembers(_, _)
DumpMembers(its, i) ==
    IF i > Len(its) THEN <<>>
    ELSE (IF i > 1 THEN <<TPunct(",")>> ELSE <<>>)
         \o <<TStr(its[i].key, <<>>), TPunct(":")>>
         \o json_dump(its[i].val)
         \o DumpMembers(its, i + 1)

json_dump(v) ==
    CASE v.k = "num" -> <<TNum(v.n)>>
      [] v.k = "str" -> <<TStr(v.s, v.cs)>>
      [] v.k = "obj" -> <<TPunct("{")>> \o DumpMembers(v.items, 1) \o <<TPunct("}")>>
      [] OTHER -> <<TNull>>

ParseFail == [ok |-> FALSE, val |-> PyNone, next |-> 0]

\* The JSON decoder: the value that starts at token i and the position after
\* it, or ParseFail.
RECURSIVE ParseValue(_, _)
RECURSIVE ParseMembers(_, _, _)
ParseMembers(toks, i, acc) ==
    IF i + 2 > Len(toks) \/ toks[i].k # "str" \/ ~IsPunct(toks[i + 1], ":")
    THEN ParseFail
    ELSE LET r == ParseValue(toks, i + 2)
         IN  IF ~r.ok \/ r.next > Len(toks) THEN ParseFail
             ELSE IF IsPunct(toks[r.next], ",")
                  THEN ParseMembers(toks, r.next + 1, Put(acc, toks[i].s, r.val))
             ELSE IF IsPunct(toks[r.next], "}")
                  THEN [ok |-> TRUE, val |-> PyDict(Put(acc, toks[i].s, r.val)),
                        next |-> r.next + 1]
             ELSE ParseFail

ParseValue(toks, i) ==
    IF i > Len(toks) THEN ParseFail
    ELSE CASE toks[i].k = "num" -> [ok |-> TRUE, val |-> PyNum(toks[i].n), next |-> i + 1]
           [] toks[i].k = "null" -> [ok |-> TRUE, val |-> PyNone, next |-> i + 1]
           [] toks[i].k = "str" ->
                [ok |-> TRUE,
                 val |-> [k |-> "str", n |-> 0, s |-> toks[i].s, cs |-> toks[i].cs,
                          items |-> <<>>],
                 next |-> i + 1]
           [] IsPunct(toks[i], "{") ->
                IF i + 1 <= Len(toks) /\ IsPunct(toks[i + 1], "}")
                THEN [ok |-> TRUE, val |-> PyDict(<<>>), next |-> i + 2]
                ELSE ParseMembers(toks, i + 1, <<>>)
           [] OTHER -> ParseFail

\* json.load(c): whether the whole text is one JSON value (else
\* JSONDecodeError), and the value.
json_load(toks) ==
    LET r == ParseValue(toks, 1)
    IN  IF r.ok /\ r.next = Len(toks) + 1 THEN r ELSE ParseFail

(***************************************************************************)
(* Module constants                                                        *)
(***************************************************************************)

DEFAULT_CACHE_FILE == ".public_ip_poster_cache/public_ip_cache.json"

PUBLIC_IP_SERVICE_URL_LIST ==
    <<"https://ipinfo.io/ip", "https://checkip.amazonaws.com">>

(***************************************************************************)
(* Bounds and inputs                                                       *)
(***************************************************************************)

\* The clock runs over 0..MaxTime.
MaxTime == 2

\* --cache-ttl ranges over -1..MaxTTL.
MaxTTL == 2

TTLs == (0 - 1)..MaxTTL

Times == 0..MaxTime

\* Addresses as the services spell them.
Addr1 == <<"1", ".", "2", ".", "5", ".", "6">>

Addr2 == <<"0", "1", ".", "2", ".", "5", ".", "6">>

\* dict(pairs) for a sequence of <<url, address>> pairs.
SnapshotOf(pairs) ==
    PyDict([i \in 1..Len(pairs) |-> [key |-> pairs[i][1], val |-> PyStr(pairs[i][2])]])

\* The mappings service -> address a caller may persist: none, one or both
\* services, in either insertion order.
Snapshots ==
    {SnapshotOf(<<>>),
     SnapshotOf(<<<<PUBLIC_IP_SERVICE_URL_LIST[1], Addr1>>>>),
     SnapshotOf(<<<<PUBLIC_IP_SERVICE_URL_LIST[2], Addr2>>>>),
     SnapshotOf(<<<<PUBLIC_IP_SERVICE_URL_LIST[1], Addr1>>,
                  <<PUBLIC_IP_SERVICE_URL_LIST[2], Addr1>>>>),
     SnapshotOf(<<<<PUBLIC_IP_SERVICE_URL_LIST[2], Addr2>>,
                  <<PUBLIC_IP_SERVICE_URL_LIST[1], Addr1>>>>)}

(***************************************************************************)
(* The cache file                                                          *)
(***************************************************************************)

NoFile == [exists |-> FALSE, content |-> <<>>, mtime |-> 0]

FileOf(text, mtime) == [exists |-> TRUE, content |-> text, mtime |-> mtime]

OldServices == SnapshotOf(<<<<PUBLIC_IP_SERVICE_URL_LIST[1], Addr1>>>>)

\* What a cache file may hold before a run: nothing, the start of a record
\* (neither is JSON), a record without "timestamp", one whose "timestamp" is
\* null, and records stamped 0..MaxTime.
CacheTexts ==
    {<<>>, <<TPunct("{"), TStr("timestamp", <<>>)>>,
     json_dump(PyDict(<<[key |-> "services", val |-> OldServices]>>)),
     json_dump(PyDict(<<[key |-> "timestamp", val |-> PyNone],
                        [key |-> "services", val |-> OldServices]>>))}
    \cup {json_dump(PyDict(<<[key |-> "timestamp", val |-> PyNum(t)],
                             [key |-> "services", val |-> OldServices]>>)) : t \in Times}

CacheFiles == {NoFile} \cup {FileOf(text, m) : text \in CacheTexts, m \in Times}

\* The record with only the first service of the mapping.
CacheJsonFirstOnly(ip_list, t) ==
    PyDict(<<[key |-> "timestamp", val |-> PyNum(t)],
             [key |-> "services",
              val |-> IF Len(ip_list.items) = 0 THEN ip_list
                      ELSE PyDict(<<ip_list.items[1]>>)]>>)

\* save_ip_list_to_cache, lines 91-95: the record that is written.
CacheJson(ip_list, t) ==
    PyDict(<<[key |-> "timestamp", val |-> PyNum(t)],
             [key |-> "services", val |-> ip_list]>>)

\* save_ip_list_to_cache(cache_file, ip_list) at time t: the file afterwards.
\* io is what the file system does: "ok"; "open_failed", open() raises IOError
\* and the file is untouched; "write_failed", open() has truncated the file,
\* and the write or the flush at close raises IOError after `written` tokens
\* of the text.  The IOError is caught and logged.
save_ip_list_to_cache(f, ip_list, t, io, written) ==
    LET text == json_dump(CacheJson(ip_list, t))
    IN  CASE io = "ok" -> FileOf(text, t)
          [] io = "write_failed" -> FileOf(SubSeq(text, 1, written), t)
          [] OTHER -> f

\* How much of the text a failed write may leave behind: nothing, or all but
\* the end.
PartialWrites(ip_list, t) == {0, Len(json_dump(CacheJson(ip_list, t))) - 1}

\* cache_age <= ttl
IsFreshNonStrict(cache_age, ttl) == cache_age <= ttl

\* Line 127: cache_age < ttl
IsFresh(cache_age, ttl) == cache_age < ttl

Returned(v) == [exc |-> "", ret |-> v]

Raised(e) == [exc |-> e, ret |-> PyNone]

\* Lines 113-120, for a parsed record holding "timestamp": the stored value
\* when it is truthy, else os.path.getmtime(cache_file).
cache_timestamp(json_cache, f) ==
    IF Truthy(Get(json_cache, "timestamp"))
    THEN Get(json_cache, "timestamp").n
    ELSE f.mtime

\* check_cache_staleness(cache_file, ttl) at time t: the value returned (None,
\* or the record read again from the file), or the exception that escapes.
\* The file is not changed between the two reads (one process, no concurrent
\* writer), so the second open() succeeds and its IOError handler is not run.
check_cache_staleness(f, ttl, t) ==
    IF ~f.exists THEN Returned(PyNone)
    ELSE LET p == json_load(f.content)
             json_cache == p.val
         IN  IF ~p.ok THEN Raised("JSONDecodeError")
             ELSE IF json_cache.k # "obj" THEN Raised("TypeError")
             ELSE IF ~HasKey(json_cache, "timestamp") THEN Raised("KeyError")
             ELSE IF Truthy(Get(json_cache, "timestamp"))
                     /\ Get(json_cache, "timestamp").k # "num"
                  THEN Raised("TypeError")
             ELSE IF IsFresh(t - cache_timestamp(json_cache, f), ttl)
                  THEN Returned(json_load(f.content).val)
             ELSE Returned(PyNone)

(***************************************************************************)
(* The cache store on its own: any sequence of saves and loads, with time  *)
(* passing in between.                                                     *)
(***************************************************************************)

NoCall ==
    [op |-> "none", ttl |-> 0, at |-> 0, snapshot |-> PyNone,
     outcome |-> "", ret |-> PyNone,
     saved |-> [valid |-> FALSE, snapshot |-> PyNone, at |-> 0]]

\* main is not running.
IdleMain ==
    /\ pc = "idle"
    /\ config = [file |-> "unreadable", other_keys |-> FALSE, has_list |-> FALSE,
                 destination_list |-> <<>>]
    /\ args = [cache_ttl |-> 0, ignore_cache |-> FALSE]
    /\ cache_dir_exists = TRUE
    /\ public_ip_list = PyNone
    /\ hist = [file0 |-> NoFile, used_cache |-> FALSE, resolver_calls |-> 0,
               resolver_returned |-> FALSE, queried |-> <<>>, answers |-> <<>>,
               saves |-> <<>>, dispatched |-> <<>>]
    /\ exit = [done |-> FALSE, status |-> 0, exc |-> ""]

InitCache ==
    /\ file \in CacheFiles
    /\ now = 0
    /\ last = NoCall
    /\ ip_address = <<>>
    /\ valid = "pending"
    /\ IdleMain

CacheSave ==
    \E ip_list \in Snapshots, io \in {"ok", "open_failed", "write_failed"} :
      \E written \in (IF io = "write_failed" THEN PartialWrites(ip_list, now) ELSE {0}) :
        /\ file' = save_ip_list_to_cache(file, ip_list, now, io, written)
        /\ last' = [op |-> "save", ttl |-> 0, at |-> now,
                    snapshot |-> ip_list, outcome |-> io, ret |-> PyNone,
                    saved |-> NoCall.saved]
        /\ UNCHANGED <<now, validateVars, mainVars>>

CacheCheck ==
    \E ttl \in TTLs :
      LET r == check_cache_staleness(file, ttl, now)
      IN  /\ last' = [op |-> "check", ttl |-> ttl, at |-> now,
                      snapshot |-> PyNone,
                      outcome |-> IF r.exc = "" THEN "returned" ELSE r.exc,
                      ret |-> r.ret,
                      saved |-> IF last.op = "save" /\ last.outcome = "ok"
                                THEN [valid |-> TRUE, snapshot |-> last.snapshot,
                                      at |-> last.at]
                                ELSE NoCall.saved]
          /\ UNCHANGED <<file, now, validateVars, mainVars>>

Tick ==
    /\ now < MaxTime
    /\ now' = now + 1
    /\ UNCHANGED <<file, last, validateVars, mainVars>>

NextCache == CacheSave \/ CacheCheck \/ Tick

SpecCache == InitCache /\ [][NextCache]_vars

(***************************************************************************)
(* get_public_ip                                                           *)
(***************************************************************************)

\* What requests.get and raise_for_status do for one service: raise a
\* RequestException (network failure, timeout or HTTP error status), or hand
\* back response.text.
NetworkError == [raises |-> TRUE, text |-> <<>>]

Body(chars) == [raises |-> FALSE, text |-> chars]

\* The answers a service may give: a failure, an empty body, an address
\* followed by a line feed, an address out of range, and an address whose last
\* segment is a superscript digit.
Responses ==
    {NetworkError, Body(<<>>), Body(Addr1 \o <<"nl">>),
     Body(<<"2", "5", "6", ".", "1", ".", "1", ".", "1">>),
     Body(<<"1", ".", "1", ".", "1", ".", "sup2">>)}

\* The body of the for loop, lines 51-62, for one service: the mapping
\* afterwards, or the exception that escapes the loop.  Only
\* requests.RequestException is caught.
QueryEffect(ip_list, service_url, resp) ==
    IF resp.raises THEN Returned(ip_list)
    ELSE LET ip == strip(resp.text)
         IN  IF ip = <<>> THEN Returned(ip_list)
             ELSE CASE validate_ip(ip) = "True" ->
                         Returned(PyDict(Put(ip_list.items, service_url, PyStr(ip))))
                    [] validate_ip(ip) = "False" -> Returned(ip_list)
                    [] OTHER -> Raised(validate_ip(ip))

(***************************************************************************)
(* The configuration and the destinations                                  *)
(***************************************************************************)

\* A destination entry: its "type" (a str, or a value that is not a str),
\* whether it has a "name" and whether it has a "host".
Dest(type, is_str, has_name, has_host) ==
    [type |-> type, type_is_str |-> is_str, has_name |-> has_name,
     has_host |-> has_host]

\* An scp entry, one without "name", one without "host", an entry of a type
\* that is not implemented, and one whose type is the number 5.
DestKinds ==
    {Dest("scp", TRUE, TRUE, TRUE), Dest("scp", TRUE, FALSE, TRUE),
     Dest("scp", TRUE, TRUE, FALSE), Dest("ftp", TRUE, TRUE, TRUE),
     Dest("5", FALSE, TRUE, TRUE)}

\* The longest destination_list.
MaxDests == 2

DestLists == UNION {[1..n -> DestKinds] : n \in 0..MaxDests}

\* The configuration file: one that cannot be opened, one that is not JSON,
\* or a JSON object: {}, an object without "destination_list", or an object
\* with one.
ConfigFile(kind, other_keys, has_list, list) ==
    [file |-> kind, other_keys |-> other_keys, has_list |-> has_list,
     destination_list |-> list]

Configs ==
    {ConfigFile("unreadable", FALSE, FALSE, <<>>),
     ConfigFile("malformed", FALSE, FALSE, <<>>),
     ConfigFile("json", FALSE, FALSE, <<>>),
     ConfigFile("json", TRUE, FALSE, <<>>)}
    \cup {ConfigFile("json", FALSE, TRUE, l) : l \in DestLists}

\* read_config_file: None after an IOError (caught and logged), the parsed
\* object, or the JSONDecodeError that json.load raises.
read_config_file(c) ==
    CASE c.file = "unreadable" -> [exc |-> "", none |-> TRUE]
      [] c.file = "malformed" -> [exc |-> "JSONDecodeError", none |-> TRUE]
      [] OTHER -> [exc |-> "", none |-> FALSE]

\* bool(config_dict) for the object of configuration c.
ConfigTruthy(c) == c.other_keys \/ c.has_list

\* run_destination_op_scp: "uploaded", "failed" (the exception is caught and
\* logged, the connection closed), or the exception that escapes: op["name"]
\* is read before the try block, op["host"] inside it.  net is whether the
\* host accepts the connection, the key and the transfer; scp.put fails when
\* there is no local file.
run_destination_op_scp(op, f, net) ==
    IF ~op.has_name THEN [exc |-> "KeyError", result |-> ""]
    ELSE IF op.has_host /\ net = "ok" /\ f.exists
         THEN [exc |-> "", result |-> "uploaded"]
    ELSE [exc |-> "", result |-> "failed"]

\* run_destination_op: the scp upload, or a warning built by concatenating
\* op["type"] to a str.
run_destination_op(op, f, net) ==
    IF op.type_is_str /\ op.type = "scp" THEN run_destination_op_scp(op, f, net)
    ELSE IF ~op.type_is_str THEN [exc |-> "TypeError", result |-> ""]
    ELSE [exc |-> "", result |-> "skipped"]

(***************************************************************************)
(* main                                                                    *)
(***************************************************************************)

Running == [done |-> FALSE, status |-> 0, exc |-> ""]

\* os._exit(-1): the exit status is 255.
OsExit == [done |-> TRUE, status |-> 255, exc |-> ""]

\* An exception that escapes main(): a traceback and exit status 1.
Uncaught(e) == [done |-> TRUE, status |-> 1, exc |-> e]

Finished == [done |-> TRUE, status |-> 0, exc |-> ""]

\* What a run has done: the cache file it started with, whether it used the
\* cache, how often it called get_public_ip and whether that returned, the
\* services queried and their answers, the cache writes attempted (the file
\* before, the outcome), the destinations handed to run_destination_op.
NoHistory(f) ==
    [file0 |-> f, used_cache |-> FALSE, resolver_calls |-> 0,
     resolver_returned |-> FALSE, queried |-> <<>>, answers |-> <<>>,
     saves |-> <<>>, dispatched |-> <<>>]

\* The cache files a run of main may find; a record stamped t was written at
\* t, a file that is not JSON at 0.
MainCacheFiles ==
    {f \in CacheFiles :
        f.exists =>
          LET p == json_load(f.content)
          IN  IF ~p.ok THEN f.mtime = 0 /\ f.content # <<>>
              ELSE IF HasKey(p.val, "timestamp") /\ Truthy(Get(p.val, "timestamp"))
                   THEN f.mtime = Get(p.val, "timestamp").n
              ELSE f.mtime \in {0, MaxTime}}

Init ==
    /\ pc = "read_config"
    /\ config \in Configs
    /\ args \in [cache_ttl : {0, MaxTTL}, ignore_cache : BOOLEAN]
    /\ file \in MainCacheFiles
    /\ cache_dir_exists = file.exists
    /\ now = MaxTime
    /\ public_ip_list = PyNone
    /\ hist = NoHistory(file)
    /\ exit = Running
    /\ last = NoCall
    /\ ip_address = <<>>
    /\ valid = "pending"

Exit(how) ==
    /\ pc' = "exited"
    /\ exit' = how

\* Lines 236-241.
ReadConfig ==
    /\ pc = "read_config"
    /\ LET r == read_config_file(config)
       IN  IF r.exc # "" THEN Exit(Uncaught(r.exc))
           ELSE IF r.none \/ ~ConfigTruthy(config) THEN Exit(OsExit)
           ELSE pc' = "setup_cache_dir" /\ UNCHANGED exit
    /\ UNCHANGED <<config, args, cache_dir_exists, public_ip_list, hist, file, now,
                   last, validateVars>>

\* Line 244, setup_cache_dir.
SetupCacheDir ==
    /\ pc = "setup_cache_dir"
    /\ cache_dir_exists' = TRUE
    /\ pc' = "check_cache"
    /\ UNCHANGED <<config, args, public_ip_list, hist, exit, file, now, last,
                   validateVars>>

\* Lines 248-255: the cache is checked whatever --ignore-cache says; a truthy
\* result is used unless --ignore-cache is set, else get_public_ip is called.
CheckCache ==
    /\ pc = "check_cache"
    /\ LET r == check_cache_staleness(file, args.cache_ttl, now)
       IN  IF r.exc # ""
           THEN Exit(Uncaught(r.exc)) /\ UNCHANGED <<public_ip_list, hist>>
           ELSE IF Truthy(r.ret) /\ ~args.ignore_cache
           THEN /\ pc' = "dispatch"
                /\ public_ip_list' = r.ret
                /\ hist' = [hist EXCEPT !.used_cache = TRUE]
                /\ UNCHANGED exit
           ELSE /\ pc' = "get_public_ip"
                /\ public_ip_list' = PyDict(<<>>)
                /\ hist' = [hist EXCEPT !.resolver_calls = @ + 1]
                /\ UNCHANGED exit
    /\ UNCHANGED <<config, args, cache_dir_exists, file, now, last, validateVars>>

\* get_public_ip, one turn of its loop (lines 50-62): the next service of
\* PUBLIC_IP_SERVICE_URL_LIST is queried.
QueryService ==
    /\ pc = "get_public_ip"
    /\ Len(hist.queried) < Len(PUBLIC_IP_SERVICE_URL_LIST)
    /\ \E resp \in Responses :
         LET service_url == PUBLIC_IP_SERVICE_URL_LIST[Len(hist.queried) + 1]
             r == QueryEffect(public_ip_list, service_url, resp)
         IN  /\ hist' = [hist EXCEPT !.queried = Append(@, service_url),
                                     !.answers = Append(@, resp)]
             /\ IF r.exc # ""
                THEN Exit(Uncaught(r.exc)) /\ UNCHANGED public_ip_list
                ELSE public_ip_list' = r.ret /\ UNCHANGED <<pc, exit>>
    /\ UNCHANGED <<config, args, cache_dir_exists, file, now, last, validateVars>>

\* Lines 255-264 without the exit of lines 259-261.
ResolverReturnsNoExit ==
    /\ pc = "get_public_ip"
    /\ Len(hist.queried) = Len(PUBLIC_IP_SERVICE_URL_LIST)
    /\ \E io \in {"ok", "open_failed", "write_failed"} :
         \E written \in (IF io = "write_failed"
                         THEN PartialWrites(public_ip_list, now) ELSE {0}) :
           /\ file' = save_ip_list_to_cache(file, public_ip_list, now, io, written)
           /\ hist' = [hist EXCEPT !.resolver_returned = TRUE,
                                   !.saves = Append(@, [before |-> file, io |-> io])]
           /\ pc' = "dispatch"
           /\ UNCHANGED exit
    /\ UNCHANGED <<config, args, cache_dir_exists, public_ip_list, now, last,
                   validateVars>>

\* get_public_ip returns (line 64) and main goes on, lines 255-264: with no
\* address it exits, else it saves the mapping to the cache file.
ResolverReturns ==
    /\ pc = "get_public_ip"
    /\ Len(hist.queried) = Len(PUBLIC_IP_SERVICE_URL_LIST)
    /\ IF Len(public_ip_list.items) = 0
       THEN /\ Exit(OsExit)
            /\ hist' = [hist EXCEPT !.resolver_returned = TRUE]
            /\ UNCHANGED file
       ELSE \E io \in {"ok", "open_failed", "write_failed"} :
              \E written \in (IF io = "write_failed"
                              THEN PartialWrites(public_ip_list, now) ELSE {0}) :
                /\ file' = save_ip_list_to_cache(file, public_ip_list, now, io, written)
                /\ hist' = [hist EXCEPT !.resolver_returned = TRUE,
                                        !.saves = Append(@, [before |-> file, io |-> io])]
                /\ pc' = "dispatch"
                /\ UNCHANGED exit
    /\ UNCHANGED <<config, args, cache_dir_exists, public_ip_list, now, last,
                   validateVars>>

\* Lines 270-271: config_dict["destination_list"].
BeginDispatch ==
    /\ pc = "dispatch"
    /\ IF config.has_list
       THEN pc' = "dispatching" /\ UNCHANGED exit
       ELSE Exit(Uncaught("KeyError"))
    /\ UNCHANGED <<config, args, cache_dir_exists, public_ip_list, hist, file, now,
                   last, validateVars>>

\* Lines 272-274, one turn of the loop: the next destination is handed to
\* run_destination_op with args.cache_file.
Dispatch ==
    /\ pc = "dispatching"
    /\ Len(hist.dispatched) < Len(config.destination_list)
    /\ \E net \in {"ok", "down"} :
         LET i == Len(hist.dispatched) + 1
             r == run_destination_op(config.destination_list[i], file, net)
         IN  /\ hist' = [hist EXCEPT !.dispatched =
                            Append(@, [dest |-> i, cache_file |-> DEFAULT_CACHE_FILE,
                                       result |-> IF r.exc # "" THEN r.exc ELSE r.result])]
             /\ IF r.exc # "" THEN Exit(Uncaught(r.exc)) ELSE UNCHANGED <<pc, exit>>
    /\ UNCHANGED <<config, args, cache_dir_exists, public_ip_list, file, now, last,
                   validateVars>>

\* Line 277: the loop is over, main logs that it finished and returns.
Finish ==
    /\ pc = "dispatching"
    /\ Len(hist.dispatched) = Len(config.destination_list)
    /\ Exit(Finished)
    /\ UNCHANGED <<config, args, cache_dir_exists, public_ip_list, hist, file, now,
                   last, validateVars>>

Next ==
    \/ ReadConfig
    \/ SetupCacheDir
    \/ CheckCache
    \/ QueryService
    \/ ResolverReturns
    \/ BeginDispatch
    \/ Dispatch
    \/ Finish

Spec == Init /\ [][Next]_vars

(***************************************************************************)
(* validate_ip on its own                                                  *)
(***************************************************************************)

\* The segments the inputs are built from: empty, 0, a leading zero, 255, 256,
\* a leading blank, a letter, and a digit followed by a superscript digit.
SegPool ==
    {<<>>, <<"0">>, <<"0", "1">>, <<"2", "5", "5">>, <<"2", "5", "6">>,
     <<" ", "1">>, <<"a">>, <<"1", "sup2">>}

\* The most segments an input has.
MaxSegs == 5

\* ".".join(segs)
RECURSIVE JoinDots(_)
JoinDots(segs) ==
    IF Len(segs) = 0 THEN <<>>
    ELSE IF Len(segs) = 1 THEN segs[1]
    ELSE segs[1] \o <<".">> \o JoinDots(Tail(segs))

\* Every input of at most n segments.
ValidateInputs(n) ==
    {JoinDots(segs) : segs \in UNION {[1..m -> SegPool] : m \in 1..n}}

InitValidate ==
    /\ ip_address \in ValidateInputs(MaxSegs)
    /\ valid = "pending"
    /\ file = NoFile
    /\ now = 0
    /\ last = NoCall
    /\ IdleMain

Validate ==
    /\ valid = "pending"
    /\ valid' = validate_ip(ip_address)
    /\ UNCHANGED <<ip_address, file, now, last, mainVars>>

NextValidate == Validate

SpecValidate == InitValidate /\ [][NextValidate]_vars

(***************************************************************************)
(* Properties                                                              *)
(***************************************************************************)

\* d1 == d2 for dicts of scalars: the same keys with the same values, in any
\* order.
DictEq(d1, d2) ==
    /\ d1.k = "obj" /\ d2.k = "obj"
    /\ {d1.items[i] : i \in 1..Len(d1.items)} = {d2.items[i] : i \in 1..Len(d2.items)}

\* The record a cache file holds, for a file that is a JSON object.
RecordOf(f) == json_load(f.content).val

IsRecord(f) == f.exists /\ json_load(f.content).ok /\ RecordOf(f).k = "obj"

\* The timestamp field is present and is a number other than 0.
HasTruthyTimestamp(f) ==
    /\ HasKey(RecordOf(f), "timestamp")
    /\ Get(RecordOf(f), "timestamp").k = "num"
    /\ Get(RecordOf(f), "timestamp").n # 0

\* The effective timestamp as documented: the stored timestamp when present
\* and truthy, in every other case the file's last-modified time.
DocumentedTimestamp(f) ==
    IF HasTruthyTimestamp(f) THEN Get(RecordOf(f), "timestamp").n ELSE f.mtime

\* The configuration loaded: main went past lines 236-241 without exiting.
ConfigLoaded == pc \notin {"idle", "read_config"} /\ config.file = "json" /\ ConfigTruthy(config)

\* The run has gone past the cache check (or ended in it).
PastCheck == pc \notin {"idle", "read_config", "setup_cache_dir", "check_cache"}

\* Every configured destination was handed to run_destination_op once, in
\* configuration order, with the path of the cache file.
AllDispatched ==
    /\ Len(hist.dispatched) = Len(config.destination_list)
    /\ \A i \in 1..Len(hist.dispatched) :
         hist.dispatched[i].dest = i /\ hist.dispatched[i].cache_file = DEFAULT_CACHE_FILE

\* C1: in a run where the configuration loads, the cache file holds a fresh
\* record and ignore_cache is false, get_public_ip is never called, the cache
\* file is never written, and by the end of the run every configured
\* destination was dispatched exactly once with the cache file's path.
C1_FreshCacheRun ==
    ( /\ ConfigLoaded
      /\ PastCheck
      /\ ~args.ignore_cache
      /\ IsRecord(hist.file0)
      /\ HasKey(RecordOf(hist.file0), "timestamp")
      /\ now - DocumentedTimestamp(hist.file0) < args.cache_ttl )
    => /\ hist.resolver_calls = 0
       /\ hist.saves = <<>>
       /\ file = hist.file0
       /\ exit.done => AllDispatched

\* C2: an unreadable or empty configuration, or a resolver that returns no
\* address, ends the process with a failure status before any cache write and
\* any dispatch; a destination is dispatched only when a non-empty
\* configuration was loaded and either the cache was used or the resolver
\* returned at least one address.
C2_FatalStopsRun ==
    /\ (pc \notin {"idle", "read_config"} /\ (config.file # "json" \/ ~ConfigTruthy(config)))
         => /\ exit.done /\ exit.status # 0
            /\ file = hist.file0 /\ hist.saves = <<>> /\ hist.dispatched = <<>>
    /\ (hist.resolver_returned /\ Len(public_ip_list.items) = 0)
         => /\ exit.done /\ exit.status # 0
            /\ file = hist.file0 /\ hist.saves = <<>> /\ hist.dispatched = <<>>
    /\ (pc = "dispatching" \/ hist.dispatched # <<>>)
         => /\ config.file = "json" /\ ConfigTruthy(config)
            /\ \/ hist.used_cache
               \/ hist.resolver_returned /\ Len(public_ip_list.items) >= 1

\* C2 witness: the resolver ran with a cache file on disk, every service
\* failed, and the process ended with status 255.
C2_Witness ==
    /\ exit.done /\ exit.status = 255
    /\ hist.resolver_returned /\ Len(public_ip_list.items) = 0
    /\ hist.file0.exists /\ Len(config.destination_list) > 0

\* C3: with ignore_cache set and the configuration loaded, whatever the cache
\* file held before (nothing, a fresh or stale record, or text that does not
\* parse), get_public_ip is called, and when it returns an address the cache
\* file is written before the dispatch.
C3_IgnoreCacheIndependent ==
    ( /\ ConfigLoaded
      /\ PastCheck
      /\ args.ignore_cache
      /\ \/ ~hist.file0.exists
         \/ ~json_load(hist.file0.content).ok
         \/ IsRecord(hist.file0) /\ HasKey(RecordOf(hist.file0), "timestamp") )
    => /\ hist.resolver_calls = 1
       /\ (hist.resolver_returned /\ Len(public_ip_list.items) >= 1)
            => Len(hist.saves) = 1

C5_TimestampFallback ==
    (last.op = "check" /\ IsRecord(file)) =>
      /\ last.outcome = "returned"
      /\ IF last.at - DocumentedTimestamp(file) < last.ttl
         THEN last.ret = RecordOf(file)
         ELSE last.ret = PyNone

\* C6: once a destination has been dispatched, the run ends only after every
\* destination of the list was attempted once, in order, and it ends
\* normally.
C6_EveryDestinationAttempted ==
    (exit.done /\ hist.dispatched # <<>>) => (exit = Finished /\ AllDispatched)

\* The mapping get_public_ip is to return for the answers received: an entry
\* for each service that answered with a non-empty body that is a valid
\* address, and no other.
Answered(i) ==
    /\ ~hist.answers[i].raises
    /\ strip(hist.answers[i].text) # <<>>
    /\ validate_ip(strip(hist.answers[i].text)) = "True"

ExpectedEntries ==
    {[key |-> PUBLIC_IP_SERVICE_URL_LIST[i], val |-> PyStr(strip(hist.answers[i].text))] :
        i \in {j \in 1..Len(hist.answers) : Answered(j)}}

\* C7: once get_public_ip has been called and is over, every service of the
\* list was queried exactly once, in list order, whatever the others
\* answered; the mapping returned has exactly the entries of the services
\* that gave a valid answer.
C7_EveryServiceQueried ==
    (hist.resolver_calls = 1 /\ pc # "get_public_ip") =>
      /\ hist.queried = PUBLIC_IP_SERVICE_URL_LIST
      /\ hist.resolver_returned
      /\ {public_ip_list.items[i] : i \in 1..Len(public_ip_list.items)} = ExpectedEntries

\* C8: when the write of the cache file fails, the file is left as it was
\* before the attempt and the run goes on: it ends only normally, with every
\* destination attempted.
C8_WriteFailureHarmless ==
    (Len(hist.saves) = 1 /\ hist.saves[1].io # "ok") =>
      /\ file = hist.saves[1].before
      /\ exit.done => (exit = Finished /\ AllDispatched)

\* C9: a successful save of a non-empty snapshot followed at once by a check
\* with a ttl larger than the time elapsed returns a record, never None,
\* whose services are the snapshot that was saved.
C9_SaveLoadRoundTrip ==
    ( /\ last.op = "check"
      /\ last.saved.valid
      /\ Len(last.saved.snapshot.items) > 0
      /\ last.ttl > last.at - last.saved.at )
    => /\ last.outcome = "returned"
       /\ last.ret # PyNone
       /\ HasKey(last.ret, "services")
       /\ DictEq(Get(last.ret, "services"), last.saved.snapshot)

\* C9 witness: a snapshot of two services was saved, time passed, and the
\* check returned a record.
C9_Witness ==
    /\ last.op = "check" /\ last.saved.valid
    /\ Len(last.saved.snapshot.items) = 2
    /\ last.at > last.saved.at
    /\ last.ttl > last.at - last.saved.at
    /\ last.outcome = "returned" /\ last.ret # PyNone

\* A segment that is a number of 0..255: a non-empty string of ASCII digits,
\* leading zeros or not.
GoodSegment(part) ==
    /\ Len(part) > 0
    /\ \A i \in 1..Len(part) : part[i] \in AsciiDigits
    /\ IntValue(part) <= 255

LeadingZero(part) == Len(part) > 1 /\ part[1] = "0"

\* A segment str.isdigit() accepts and int() does not parse.
UnparsableDigits(part) ==
    /\ Len(part) > 0
    /\ \A i \in 1..Len(part) : part[i] \in IsDigitChars
    /\ \E i \in 1..Len(part) : part[i] \notin AsciiDigits

Segments == split(ip_address, ".")

====
